---------------------------- MODULE Spec2Model ----------------------------
(***************************************************************************)
(* Model of gesture_launcher.py: the per-frame stability counter, the      *)
(* cooldown gate and the action dispatcher (perform_mapped_action with     *)
(* launch_program_by_key, find_executable_for_key and speak).              *)
(*                                                                         *)
(* Python values are encoded as follows.                                   *)
(*   Optional value   : <<>> is None, <<v>> is the value v                 *)
(*   function result  : "True", "False", "None", or "raise" when an        *)
(*                      exception leaves the function                      *)
(*   time.time()      : whole seconds; the wall clock may go back          *)
(***************************************************************************)
EXTENDS Integers, Sequences, FiniteSets

\* ------------------------------------------------------------------------
\* Configuration (module level of gesture_launcher.py)
\* ------------------------------------------------------------------------

STABLE_FRAMES == 6

COOLDOWN_SECONDS == 3

\* Landmark indices of the finger tips: thumb, index, middle, ring, pinky.
FINGER_TIPS == <<4, 8, 12, 16, 20>>

\* last_trigger_time as main initialises it (line 252).
InitialTriggerTime == 0

\* Bounds of the model
MaxTime == 7

MaxStable == 8

MaxInstalled == 2

MaxHist == 7

\* The longest landmark list, and the most points without coordinates in one.
MaxLandmarks == 21

MaxBad == 1

None == <<>>

Some(v) == <<v>>

PyTrue == "True"

PyFalse == "False"

PyNone == "None"

PyRaise == "raise"

\* Python truthiness of a function result: True is truthy, False and None are not.
Truthy(r) == r = PyTrue

\* Python truthiness of an optional string parameter: None and "" are falsy.
ParamTruthy(param) == param # None /\ param # Some("")

FingerCounts == 0..5

Platforms == {"win32", "darwin", "linux"}

\* str.startswith on sys.platform, for the prefixes the program tests.
StartsWith(plat, prefix) ==
    \/ prefix = plat
    \/ plat = "win32" /\ prefix = "win"

WinChrome == "C:\\Program Files\\Google\\Chrome\\Application\\chrome.exe"

WinChromeX86 == "C:\\Program Files (x86)\\Google\\Chrome\\Application\\chrome.exe"

MacChrome == "/Applications/Google Chrome.app/Contents/MacOS/Google Chrome"

MacCode == "/Applications/Visual Studio Code.app/Contents/Resources/app/bin/code"

\* A directly configured executable path of a customised mapping.
CustomPath == "/opt/tools/viewer"

\* PROGRAM_LOOKUP: key -> the platform groups in dict order, each with its
\* candidates in list order.
PROGRAM_LOOKUP ==
    [key \in {"chrome", "code", "explorer"} |->
        CASE key = "chrome" ->
                << [plat_key |-> "win32",
                    candidates |-> <<"chrome", WinChrome, WinChromeX86>>],
                   [plat_key |-> "darwin", candidates |-> <<MacChrome>>],
                   [plat_key |-> "linux",
                    candidates |-> <<"google-chrome", "chrome", "chromium",
                                     "chromium-browser">>] >>
          [] key = "code" ->
                << [plat_key |-> "win32", candidates |-> <<"code">>],
                   [plat_key |-> "darwin", candidates |-> <<"code", MacCode>>],
                   [plat_key |-> "linux", candidates |-> <<"code">>] >>
          [] key = "explorer" ->
                << [plat_key |-> "win32", candidates |-> <<"explorer">>],
                   [plat_key |-> "darwin", candidates |-> <<"open">>],
                   [plat_key |-> "linux",
                    candidates |-> <<"xdg-open", "nautilus", "nemo">>] >>]

\* APP_MAPPING as shipped; entry 4 depends on sys.platform.
APP_MAPPING(plat) ==
    [c \in FingerCounts |->
        CASE c = 0 -> <<"noop", None>>
          [] c = 1 -> <<"open_url", Some("https://www.youtube.com/")>>
          [] c = 2 -> <<"open_program", Some("chrome")>>
          [] c = 3 -> <<"open_program", Some("code")>>
          [] c = 4 -> <<"open_program",
                        Some(IF StartsWith(plat, "win") THEN "explorer"
                                                        ELSE "nautilus")>>
          [] c = 5 -> <<"open_program", None>>]

\* A customised APP_MAPPING (the file invites editing it): the action kinds
\* the shipped mapping does not use, and counts 0 and 5 left out.
CustomMapping ==
    [c \in 1..4 |->
        CASE c = 1 -> <<"say_text", Some("hello")>>
          [] c = 2 -> <<"open_url", Some("")>>
          [] c = 3 -> <<"open_program", Some(CustomPath)>>
          [] c = 4 -> <<"play_sound", Some("ding")>>]

\* Mutant: a count without an entry falls back to an action that acts.
MappingGet_default_acts(mapping, finger_count) ==
    IF finger_count \in DOMAIN mapping THEN mapping[finger_count]
    ELSE <<"open_url", Some("https://www.youtube.com/")>>

\* APP_MAPPING.get(finger_count, ("noop", None))
MappingGet(mapping, finger_count) ==
    IF finger_count \in DOMAIN mapping THEN mapping[finger_count]
                                       ELSE <<"noop", None>>

\* ------------------------------------------------------------------------
\* The outside world as one dispatch sees it
\* ------------------------------------------------------------------------

\* os.path.isabs on the running platform: ntpath on win32, where a drive
\* path and a path that starts with a slash are both absolute, posixpath
\* elsewhere, where only a path that starts with a slash is.
IsAbs(c, plat) ==
    IF plat = "win32"
    THEN c \in {WinChrome, WinChromeX86, MacChrome, MacCode, CustomPath}
    ELSE c \in {MacChrome, MacCode, CustomPath}

\* PROGRAM_LOOKUP.get(key, {})
LookupGet(key) ==
    IF key \in DOMAIN PROGRAM_LOOKUP THEN PROGRAM_LOOKUP[key] ELSE <<>>

RECURSIVE Flatten(_)
\* The candidates of a list of groups, in iteration order.
Flatten(groups) ==
    IF groups = <<>> THEN <<>>
    ELSE Head(groups).candidates \o Flatten(Tail(groups))

Range(s) == {s[i] : i \in DOMAIN s}

\* Every name or path a dispatch of open_program with this parameter can probe.
Relevant(param) ==
    IF param = None THEN {}
    ELSE {param[1]} \cup Range(Flatten(LookupGet(param[1])))

\* A world: the absolute paths that exist (files) and the names and paths
\* shutil.which resolves (exec).  At most MaxInstalled programs are present.
Worlds(param, plat) ==
    {w \in [files : SUBSET {c \in Relevant(param) : IsAbs(c, plat)},
            exec : SUBSET Relevant(param)] :
        /\ Cardinality(w.files \cup w.exec) <= MaxInstalled
        /\ \A c \in w.exec : IsAbs(c, plat) => c \in w.files}

\* What one dispatch meets: the file system, which Popen calls raise (by
\* position among the dispatch's Popen calls), whether webbrowser.open and
\* the speech engine (by position among the tick's speech calls) raise.
\* Only what the action can consult varies.
Envs(mapping_tuple, plat, voice) ==
    LET action == mapping_tuple[1]
        param == mapping_tuple[2]
        nothing == [files |-> {}, exec |-> {}]
    IN  {e \in [world : IF action = "open_program" THEN Worlds(param, plat)
                        ELSE {nothing},
                popen_raises : [1..3 -> BOOLEAN],
                browser_raises : BOOLEAN,
                tts_raises : [1..2 -> BOOLEAN]] :
            /\ e.world = nothing => \A i \in 1..3 : ~e.popen_raises[i]
            /\ action # "open_url" => ~e.browser_raises
            /\ ~voice => \A i \in 1..2 : ~e.tts_raises[i]
            /\ action # "say_text" => ~e.tts_raises[2]}

\* ------------------------------------------------------------------------
\* Utilities (lines 88-147)
\* ------------------------------------------------------------------------

\* One call of an external capability, as the tick's trace records it.
Call(fn, argv, via, raised) ==
    [fn |-> fn, argv |-> argv, via |-> via, raised |-> raised]

\* speak(text): the calls it makes, given how many speech calls the tick has
\* made so far.  It returns nothing and lets no exception out.
speak(text, voice, tts_raises, spoken) ==
    IF ~voice THEN <<>>
    ELSE <<Call("say", <<text>>, "tts", tts_raises[spoken + 1])>>

\* The probe of one candidate: the candidate itself when it is an existing
\* absolute path, else the path shutil.which finds for it, else None.
Probe(c, plat, world) ==
    IF IsAbs(c, plat) /\ c \in world.files THEN Some([via |-> "abs", name |-> c])
    ELSE IF c \in world.exec THEN Some([via |-> "which", name |-> c])
    ELSE None

RECURSIVE FirstResolved(_, _, _)
\* The first candidate of the list, in order, whose probe succeeds.
FirstResolved(cands, plat, world) ==
    IF cands = <<>> THEN None
    ELSE IF Probe(Head(cands), plat, world) # None
         THEN Probe(Head(cands), plat, world)
         ELSE FirstResolved(Tail(cands), plat, world)

\* Mutant: the groups are searched in dict order, the platform's own group
\* not first.
find_executable_any_group(key, plat, world) ==
    FirstResolved(Flatten(LookupGet(key)), plat, world)

find_executable_for_key(key, plat, world) ==
    LET lookup == LookupGet(key)
        matching == SelectSeq(lookup, LAMBDA g : StartsWith(plat, g.plat_key))
        first == FirstResolved(Flatten(matching), plat, world)
    IN  IF first # None THEN first
        ELSE FirstResolved(Flatten(lookup), plat, world)

\* launch_program_by_key(key), entered after `made` Popen calls of the dispatch.
launch_program_by_key(key, plat, env, made) ==
    LET cmd == find_executable_for_key(key, plat, env.world)
        first == Call("Popen", <<cmd[1].name>>, cmd[1].via, env.popen_raises[made + 1])
        again == Call("Popen", <<cmd[1].name>>, cmd[1].via, env.popen_raises[made + 2])
        open == Call("Popen", <<"open", "-a", key>>, "fixed", env.popen_raises[made + 2])
    IN  IF cmd = None THEN [ret |-> PyFalse, calls |-> <<>>]
        ELSE IF ~first.raised THEN [ret |-> PyTrue, calls |-> <<first>>]
        ELSE IF plat = "darwin"
             THEN [ret |-> IF open.raised THEN PyFalse ELSE PyTrue,
                   calls |-> <<first, open>>]
        ELSE IF StartsWith(plat, "linux")
             THEN [ret |-> IF again.raised THEN PyFalse ELSE PyTrue,
                   calls |-> <<first, again>>]
        ELSE [ret |-> PyNone, calls |-> <<first>>]

\* ------------------------------------------------------------------------
\* perform_mapped_action (lines 149-189)
\* ------------------------------------------------------------------------

perform_mapped_action(mapping_tuple, plat, voice, env) ==
    LET action == mapping_tuple[1]
        param == mapping_tuple[2]
        direct == Call("Popen", param, "abs", env.popen_raises[1])
        exe == Call("Popen", param, "which", env.popen_raises[1])
        by_key == launch_program_by_key(param[1], plat, env, 0)
        by_key_after == launch_program_by_key(param[1], plat, env, 1)
    IN  IF action = "noop" THEN [ret |-> PyFalse, calls |-> <<>>]
        ELSE IF action = "open_url" /\ ParamTruthy(param)
             THEN [ret |-> IF env.browser_raises THEN PyRaise ELSE PyTrue,
                   calls |-> <<Call("webbrowser.open", param, "browser",
                                    env.browser_raises)>>]
        ELSE IF action = "open_program"
             THEN IF param = None THEN [ret |-> PyFalse, calls |-> <<>>]
                  ELSE IF IsAbs(param[1], plat) /\ param[1] \in env.world.files
                       THEN [ret |-> IF direct.raised THEN PyFalse ELSE PyTrue,
                             calls |-> <<direct>>]
                  ELSE IF param[1] \in env.world.exec
                       THEN IF ~exe.raised
                            THEN [ret |-> PyTrue, calls |-> <<exe>>]
                            ELSE [ret |-> by_key_after.ret,
                                  calls |-> <<exe>> \o by_key_after.calls]
                  ELSE by_key
        ELSE IF action = "say_text" /\ ParamTruthy(param)
             THEN [ret |-> PyTrue,
                   calls |-> speak(param[1], voice, env.tts_raises, 0)]
        ELSE [ret |-> PyFalse, calls |-> <<>>]

\* ------------------------------------------------------------------------
\* Finger counting (lines 195-236)
\* ------------------------------------------------------------------------

\* A landmark point.  A coordinate is None when it is not a number; a point
\* without attrs has no x and no y attribute at all.
Coords == {None, Some(0), Some(1)}

Point(x, y) == [attrs |-> TRUE, x |-> x, y |-> y]

NoAttrs == [attrs |-> FALSE, x |-> None, y |-> None]

\* Python's a < b on two coordinates: a TypeError when one is not a number.
Less(a, b) ==
    IF a = None \/ b = None THEN PyRaise
    ELSE IF a[1] < b[1] THEN PyTrue ELSE PyFalse

\* 1 if cmp else 0, inside a try whose except clause appends 0.
Bit(cmp) == IF cmp = PyTrue THEN 1 ELSE 0

\* Mutant: every label but "Left" uses the rule of the right hand.
ThumbBit_right_unless_left(lm, hand_label) ==
    IF Len(lm) <= FINGER_TIPS[1] THEN 0
    ELSE IF hand_label # Some("Left")
         THEN Bit(Less(lm[FINGER_TIPS[1] + 1].x, lm[FINGER_TIPS[1]].x))
         ELSE Bit(Less(lm[FINGER_TIPS[1]].x, lm[FINGER_TIPS[1] + 1].x))

\* Mutant: the label is ignored, the rule of the right hand always used.
ThumbBit_ignores_label(lm, hand_label) ==
    IF Len(lm) <= FINGER_TIPS[1] THEN 0
    ELSE Bit(Less(lm[FINGER_TIPS[1] + 1].x, lm[FINGER_TIPS[1]].x))

\* The thumb (lines 211-225).  lm is the list of (x, y) pairs; Python index
\* k is position k + 1 here, and an index past the end is an IndexError.
ThumbBit(lm, hand_label) ==
    IF Len(lm) <= FINGER_TIPS[1] THEN 0
    ELSE LET tip_x == lm[FINGER_TIPS[1] + 1].x
             ip_x == lm[FINGER_TIPS[1]].x
             label == IF hand_label = None THEN Some("Right") ELSE hand_label
         IN  IF label = Some("Right") THEN Bit(Less(tip_x, ip_x))
                                      ELSE Bit(Less(ip_x, tip_x))

\* One of the other fingers, i in 2..5 (lines 228-234).
FingerBit(lm, i) ==
    IF Len(lm) <= FINGER_TIPS[i] THEN 0
    ELSE LET tip_y == lm[FINGER_TIPS[i] + 1].y
             pip_y == lm[FINGER_TIPS[i] - 1].y
         IN  Bit(Less(tip_y, pip_y))

RECURSIVE SumSeq(_)
SumSeq(s) == IF s = <<>> THEN 0 ELSE Head(s) + SumSeq(Tail(s))

\* count_fingers_from_landmarks(hand_landmarks, hand_label), with
\* hand_landmarks.landmark given as the list `landmark`.  Reading x and y of
\* every point (line 205) is outside any try.
count_fingers_from_landmarks(landmark, hand_label) ==
    IF \E k \in DOMAIN landmark : ~landmark[k].attrs
    THEN [ret |-> PyRaise, count |-> 0, fingers |-> <<>>]
    ELSE LET fingers == <<ThumbBit(landmark, hand_label)>>
                            \o [i \in 1..4 |-> FingerBit(landmark, i + 1)]
         IN  [ret |-> "ok", count |-> SumSeq(fingers), fingers |-> fingers]

\* ------------------------------------------------------------------------
\* Main loop (lines 242-335)
\* ------------------------------------------------------------------------

VARIABLES
    platform,           \* sys.platform
    VOICE_AVAILABLE,    \* whether pyttsx3 was imported and initialised
    app_mapping,        \* APP_MAPPING as configured for this run
    last_trigger_time,  \* main's local
    stable_counter,     \* main's local
    last_count,         \* main's local, None or Some(count)
    pc,                 \* "loop", "done" (loop left) or "crashed" (exception)
    now,                \* time.time() as read on the latest tick
    observed,           \* the latest tick's input: None or Some(finger_count)
    dispatched,         \* whether the latest tick called perform_mapped_action
    acted,              \* what that call returned ("None" when there was none)
    calls,              \* the capability calls of the latest tick, in order
    acted_at,           \* the times of the ticks whose dispatch acted, in order
    prev_ret,           \* what the latest dispatch before the latest tick
                        \* returned ("-" when there was none)
    noop_only,          \* whether every dispatch so far was of a noop action
    hist,               \* the inputs of all ticks so far (SpecHist only)
    passed,             \* the tuple the latest tick passed to
                        \* perform_mapped_action: None or Some(tuple)
    lost_since,         \* whether a frame without a hand came after the
                        \* latest dispatch that acted
    call_in,            \* the arguments of a function applied on its own
    call_out            \* None, or Some(what that application gave)

vars == <<platform, VOICE_AVAILABLE, app_mapping, last_trigger_time,
          stable_counter, last_count, pc, now, observed, dispatched, acted,
          calls, acted_at, prev_ret, noop_only, hist, passed, lost_since,
          call_in, call_out>>

config == <<platform, VOICE_AVAILABLE, app_mapping>>

probe == <<call_in, call_out>>

Mappings(plat) == {APP_MAPPING(plat), CustomMapping}

\* main's locals when the loop is entered (lines 252-254).
LoopInit ==
    /\ last_trigger_time = InitialTriggerTime
    /\ stable_counter = 0
    /\ last_count = None
    /\ pc = "loop"
    /\ now = 0
    /\ observed = None
    /\ dispatched = FALSE
    /\ acted = PyNone
    /\ calls = <<>>
    /\ acted_at = <<>>
    /\ prev_ret = "-"
    /\ noop_only = TRUE
    /\ hist = <<>>
    /\ passed = None
    /\ lost_since = FALSE

\* The state when the loop is entered.
Init ==
    /\ platform \in Platforms
    /\ VOICE_AVAILABLE \in BOOLEAN
    /\ app_mapping \in Mappings(platform)
    /\ LoopInit
    /\ call_in = None
    /\ call_out = None

\* Mutant: a changed count is taken over without restarting the counter.
Stability_sticky(lc, sc, finger_count) == <<Some(finger_count), sc + 1>>

\* Mutant: a changed count restarts the counter at 0 instead of 1.
Stability_from_zero(lc, sc, finger_count) ==
    IF Some(finger_count) = lc THEN <<lc, sc + 1>>
    ELSE <<Some(finger_count), 0>>

\* Stability logic (lines 290-294): <<last_count, stable_counter>> after a
\* frame with a hand showing finger_count.
Stability(lc, sc, finger_count) ==
    IF Some(finger_count) = lc THEN <<lc, sc + 1>>
    ELSE <<Some(finger_count), 1>>

\* Mutant: losing the hand resets the counter but keeps last_count.
NoHand_keeps_last_count(lc, sc) == <<lc, 0>>

\* No hand detected (lines 315-318).
NoHand(lc, sc) == <<None, 0>>

\* Mutant: stable one frame early.
is_stable_early(sc) == sc >= STABLE_FRAMES - 1

\* Mutant: the cooldown is over one second early.
allow_early(t, ltt) == (t - ltt) >= COOLDOWN_SECONDS - 1

\* Mutant: the cooldown ends only after more than COOLDOWN_SECONDS.
allow_late(t, ltt) == (t - ltt) > COOLDOWN_SECONDS

\* The trigger condition (line 298).
is_stable(sc) == sc >= STABLE_FRAMES

allow(t, ltt) == (t - ltt) >= COOLDOWN_SECONDS

\* Mutant: the cooldown is never recorded.
Record_never(r, t, ltt) == ltt

\* last_trigger_time after a dispatch at time t that returned r (lines 302-303).
Record(r, t, ltt) == IF Truthy(r) THEN t ELSE ltt

\* The voice feedback after an acted dispatch (lines 304-313).
Feedback(mapping_tuple, voice, tts_raises, spoken) ==
    IF mapping_tuple[1] = "open_url"
    THEN speak("Opening website.", voice, tts_raises, spoken)
    ELSE IF mapping_tuple[1] = "open_program"
    THEN speak("Opening program.", voice, tts_raises, spoken)
    ELSE IF mapping_tuple[1] = "say_text"
    THEN speak(mapping_tuple[2][1], voice, tts_raises, spoken)
    ELSE speak("Action performed.", voice, tts_raises, spoken)

\* The clock readings a tick may see after the reading `t`: time.time() is
\* the wall clock, which may also have been set back.
Later(t) == 0..MaxTime

\* Whether the configured mapping gives the count no action: it has no entry
\* for it, or the entry is a noop.
NoopMapped(finger_count) ==
    \/ finger_count \notin DOMAIN app_mapping
    \/ app_mapping[finger_count][1] = "noop"

\* prev_ret after a tick begins: the result of the tick before, if it
\* dispatched.
PrevRet == IF dispatched THEN acted ELSE prev_ret

\* Mutant: losing the hand also ends the cooldown.
TickNoHand_resets_cooldown(t) ==
    /\ pc = "loop"
    /\ now' = t
    /\ observed' = None
    /\ last_count' = NoHand(last_count, stable_counter)[1]
    /\ stable_counter' = NoHand(last_count, stable_counter)[2]
    /\ dispatched' = FALSE
    /\ acted' = PyNone
    /\ calls' = <<>>
    /\ prev_ret' = PrevRet
    /\ passed' = None
    /\ lost_since' = TRUE
    /\ last_trigger_time' = InitialTriggerTime
    /\ UNCHANGED <<config, pc, acted_at, noop_only, probe>>

\* A frame with no hand.
TickNoHand(t) ==
    /\ pc = "loop"
    /\ now' = t
    /\ observed' = None
    /\ last_count' = NoHand(last_count, stable_counter)[1]
    /\ stable_counter' = NoHand(last_count, stable_counter)[2]
    /\ dispatched' = FALSE
    /\ acted' = PyNone
    /\ calls' = <<>>
    /\ prev_ret' = PrevRet
    /\ passed' = None
    /\ lost_since' = TRUE
    /\ UNCHANGED <<config, last_trigger_time, pc, acted_at, noop_only, probe>>

\* A frame with a hand on which the trigger condition is false.
TickHand(finger_count, t) ==
    LET st == Stability(last_count, stable_counter, finger_count)
    IN  /\ pc = "loop"
        /\ st[2] <= MaxStable
        /\ ~(is_stable(st[2]) /\ allow(t, last_trigger_time))
        /\ now' = t
        /\ observed' = Some(finger_count)
        /\ last_count' = st[1]
        /\ stable_counter' = st[2]
        /\ dispatched' = FALSE
        /\ acted' = PyNone
        /\ calls' = <<>>
        /\ prev_ret' = PrevRet
        /\ passed' = None
        /\ UNCHANGED <<config, last_trigger_time, pc, acted_at, noop_only,
                       lost_since, probe>>

\* The mapping tuples a run can dispatch.
MappingTuples ==
    UNION {{MappingGet(m, c) : c \in FingerCounts} :
              m \in UNION {Mappings(plat) : plat \in Platforms}}

\* What the trigger branch (lines 300-313) does with the outside world:
\* the dispatcher's result, and the capability calls of the dispatcher
\* followed by those of the voice feedback when the action acted.
Trigger(mapping_tuple, plat, voice, env) ==
    LET res == perform_mapped_action(mapping_tuple, plat, voice, env)
        said == Len(SelectSeq(res.calls, LAMBDA c : c.fn = "say"))
    IN  [ret |-> res.ret,
         calls |-> IF Truthy(res.ret)
                   THEN res.calls \o Feedback(mapping_tuple, voice,
                                              env.tts_raises, said)
                   ELSE res.calls]

\* The distinct outcomes of the trigger branch over every environment.
Outcomes ==
    [mt \in MappingTuples, plat \in Platforms, voice \in BOOLEAN |->
        {Trigger(mt, plat, voice, env) : env \in Envs(mt, plat, voice)}]

\* A frame with a hand on which the trigger condition holds: the mapped
\* action is performed (lines 298-313).
TickDispatch(finger_count, t) ==
    LET st == Stability(last_count, stable_counter, finger_count)
        mapping == MappingGet(app_mapping, finger_count)
    IN  /\ pc = "loop"
        /\ st[2] <= MaxStable
        /\ is_stable(st[2]) /\ allow(t, last_trigger_time)
        /\ \E out \in Outcomes[mapping, platform, VOICE_AVAILABLE] :
            /\ acted' = out.ret
            /\ calls' = out.calls
            /\ pc' = IF out.ret = PyRaise THEN "crashed" ELSE "loop"
            /\ last_trigger_time' = Record(out.ret, t, last_trigger_time)
            /\ acted_at' = IF Truthy(out.ret) THEN Append(acted_at, t)
                                              ELSE acted_at
            /\ lost_since' = (lost_since /\ ~Truthy(out.ret))
        /\ passed' = Some(mapping)
        /\ now' = t
        /\ observed' = Some(finger_count)
        /\ last_count' = st[1]
        /\ stable_counter' = st[2]
        /\ dispatched' = TRUE
        /\ prev_ret' = PrevRet
        /\ noop_only' = (noop_only /\ NoopMapped(finger_count))
        /\ UNCHANGED <<config, probe>>

\* The loop is left: a frame could not be read, or 'q' was pressed.
Stop ==
    /\ pc = "loop"
    /\ pc' = "done"
    /\ UNCHANGED <<config, last_trigger_time, stable_counter, last_count, now,
                   observed, dispatched, acted, calls, acted_at, prev_ret,
                   noop_only, passed, lost_since, probe>>

NoHandStep ==
    /\ \E t \in Later(now) : TickNoHand(t)
    /\ UNCHANGED hist

HandStep ==
    /\ \E t \in Later(now), finger_count \in FingerCounts :
          TickHand(finger_count, t)
    /\ UNCHANGED hist

DispatchStep ==
    /\ \E t \in Later(now), finger_count \in FingerCounts :
          TickDispatch(finger_count, t)
    /\ UNCHANGED hist

StopStep == Stop /\ UNCHANGED hist

Next == NoHandStep \/ HandStep \/ DispatchStep \/ StopStep

Spec == Init /\ [][Next]_vars

\* ------------------------------------------------------------------------
\* The same loop with the sequence of its inputs recorded, over the inputs
\* "no hand" and the counts of HistCounts.
\* ------------------------------------------------------------------------

HistCounts == {0, 1}

NoHandHist ==
    /\ Len(hist) < MaxHist
    /\ \E t \in Later(now) : TickNoHand(t)
    /\ hist' = Append(hist, None)

HandHist ==
    /\ Len(hist) < MaxHist
    /\ \E t \in Later(now), finger_count \in HistCounts :
          /\ TickHand(finger_count, t)
          /\ hist' = Append(hist, Some(finger_count))

DispatchHist ==
    /\ Len(hist) < MaxHist
    /\ \E t \in Later(now), finger_count \in HistCounts :
          /\ TickDispatch(finger_count, t)
          /\ hist' = Append(hist, Some(finger_count))

NextHist == NoHandHist \/ HandHist \/ DispatchHist

SpecHist == Init /\ [][NextHist]_vars

\* ------------------------------------------------------------------------
\* perform_mapped_action applied on its own: one call with a tuple of the
\* configured mapping, in one environment.
\* ------------------------------------------------------------------------

\* The variables of the main loop and of its monitors.
loop == <<last_trigger_time, stable_counter, last_count, pc, now, observed,
          dispatched, acted, calls, acted_at, prev_ret, noop_only, hist,
          passed, lost_since>>

DispatchInputs(mapping, plat, voice) ==
    UNION {{[mapping_tuple |-> mapping[c], env |-> e] :
                e \in Envs(mapping[c], plat, voice)} : c \in DOMAIN mapping}

InitDispatch ==
    /\ platform \in Platforms
    /\ VOICE_AVAILABLE \in BOOLEAN
    /\ app_mapping \in Mappings(platform)
    /\ LoopInit
    /\ call_in \in DispatchInputs(app_mapping, platform, VOICE_AVAILABLE)
    /\ call_out = None

ApplyDispatch ==
    /\ call_out = None
    /\ call_out' = Some(perform_mapped_action(call_in.mapping_tuple, platform,
                                              VOICE_AVAILABLE, call_in.env))
    /\ UNCHANGED <<config, loop, call_in>>

NextDispatch == ApplyDispatch

SpecDispatch == InitDispatch /\ [][NextDispatch]_vars

\* ------------------------------------------------------------------------
\* count_fingers_from_landmarks applied on its own, to a landmark list and
\* then to its mirror image with the label of the other hand.
\* ------------------------------------------------------------------------

\* The labels: absent, the two MediaPipe gives, and another string.
HandLabels == {None, Some("Right"), Some("Left"), Some("Unknown")}

\* The postures of one finger: <<tip, joint>> coordinates on the axis its
\* rule compares.
ThumbPostures == Coords \X Coords

FingerPostures == {<<Some(0), Some(1)>>, <<Some(1), Some(0)>>,
                   <<None, Some(0)>>}

\* The Python indices where a point may lack its attributes.
BadPositions == {0, FINGER_TIPS[1], FINGER_TIPS[5]}

\* The point at Python index k of a hand in the given postures.
PointAt(k, thumb, others) ==
    LET x == IF k = FINGER_TIPS[1] THEN thumb[1]
             ELSE IF k = FINGER_TIPS[1] - 1 THEN thumb[2]
             ELSE Some(0)
        y == IF \E i \in 2..5 : k = FINGER_TIPS[i]
             THEN others[(CHOOSE i \in 2..5 : k = FINGER_TIPS[i]) - 1][1]
             ELSE IF \E i \in 2..5 : k = FINGER_TIPS[i] - 2
             THEN others[(CHOOSE i \in 2..5 : k = FINGER_TIPS[i] - 2) - 1][2]
             ELSE Some(0)
    IN  Point(x, y)

\* The landmark lists: the first n points of a hand, some without attributes.
Landmarks ==
    {[k \in 1..n |-> IF (k - 1) \in bad THEN NoAttrs
                     ELSE PointAt(k - 1, thumb, others)] :
        n \in 0..MaxLandmarks,
        thumb \in ThumbPostures,
        others \in [1..4 -> FingerPostures],
        bad \in {b \in SUBSET BadPositions : Cardinality(b) <= MaxBad}}

\* x -> 1 - x on every point.
MirrorCoord(c) == IF c = None THEN None ELSE Some(1 - c[1])

Mirror(landmark) ==
    [k \in DOMAIN landmark |->
        [landmark[k] EXCEPT !.x = MirrorCoord(landmark[k].x)]]

\* Left <-> Right; an absent or other label stays.
SwapLabel(hand_label) ==
    IF hand_label = Some("Left") THEN Some("Right")
    ELSE IF hand_label = Some("Right") THEN Some("Left")
    ELSE hand_label

InitFingers ==
    /\ platform = "linux"
    /\ VOICE_AVAILABLE = FALSE
    /\ app_mapping = APP_MAPPING(platform)
    /\ LoopInit
    /\ call_in \in [landmark : Landmarks, hand_label : HandLabels,
                     twin : {None}]
    /\ call_out = None

ApplyFingers ==
    /\ call_out = None
    /\ call_out' = Some(count_fingers_from_landmarks(call_in.landmark,
                                                     call_in.hand_label))
    /\ UNCHANGED <<config, loop, call_in>>

\* The mirror image of the observation just counted becomes the next input;
\* twin keeps what the original gave.
MirrorFingers ==
    /\ call_out # None
    /\ call_in.twin = None
    /\ call_in' = [landmark |-> Mirror(call_in.landmark),
                   hand_label |-> SwapLabel(call_in.hand_label),
                   twin |-> call_out]
    /\ call_out' = None
    /\ UNCHANGED <<config, loop>>

NextFingers == ApplyFingers \/ MirrorFingers

SpecFingers == InitFingers /\ [][NextFingers]_vars

\* ------------------------------------------------------------------------
\* Properties
\* ------------------------------------------------------------------------

\* The action the configured mapping gives the latest tick's count.
ObservedAction == MappingGet(app_mapping, observed[1])[1]

\* The launch calls (Popen, webbrowser.open) among the latest tick's calls.
LaunchCalls == SelectSeq(calls, LAMBDA c : c.fn # "say")

\* C1: on every tick, perform_mapped_action is called only if the stability
\* counter, as updated by this tick, is at least STABLE_FRAMES and the tick's
\* clock reading is at least COOLDOWN_SECONDS after last_trigger_time as it
\* was when the tick began.
C1_DispatchOnlyStableAndCooled ==
    [][(pc' # "done" /\ dispatched') =>
          /\ stable_counter' >= STABLE_FRAMES
          /\ now' - last_trigger_time >= COOLDOWN_SECONDS]_vars

\* A dispatch on the first tick that satisfies both conditions.
C1_Witness ==
    /\ dispatched
    /\ stable_counter = STABLE_FRAMES
    /\ now = InitialTriggerTime + COOLDOWN_SECONDS

RECURSIVE RunLength(_)
\* The number of equal non-None inputs that end the input sequence h.
RunLength(h) ==
    IF h = <<>> THEN 0
    ELSE IF h[Len(h)] = None THEN 0
    ELSE IF Len(h) >= 2 /\ h[Len(h) - 1] = h[Len(h)]
         THEN 1 + RunLength(SubSeq(h, 1, Len(h) - 1))
         ELSE 1

\* C2: after any sequence of inputs the stability counter equals the length
\* k of the run of identical counts that ends the sequence (a run starts
\* after a None, after a different count, or at the start, and its first
\* tick gives 1), and after a None input the state is (None, 0).
C2_CounterIsRunLength ==
    /\ stable_counter = RunLength(hist)
    /\ (hist # <<>> /\ hist[Len(hist)] = None) =>
          (last_count = None /\ stable_counter = 0)
    /\ (hist # <<>> /\ hist[Len(hist)] # None) => stable_counter >= 1

\* A run of three that follows a None and a different count.
C2_Witness ==
    /\ Len(hist) = 6
    /\ hist[1] # None /\ hist[2] = None
    /\ hist[3] # None /\ hist[3] # hist[4]
    /\ hist[4] = hist[5] /\ hist[5] = hist[6]
    /\ stable_counter = 3

\* C3: once a dispatch has acted at t0, a later tick whose clock reading is
\* below t0 + COOLDOWN_SECONDS calls no dispatch whatever it observes, a
\* later stable tick at or after t0 + COOLDOWN_SECONDS does, and any two
\* dispatches that acted are at least COOLDOWN_SECONDS apart.
C3_CooldownAfterActed ==
    /\ [](\A i, j \in DOMAIN acted_at :
            i < j => acted_at[j] - acted_at[i] >= COOLDOWN_SECONDS)
    /\ [][(acted_at # <<>> /\ pc' # "done") =>
            LET t0 == acted_at[Len(acted_at)]
            IN  /\ now' < t0 + COOLDOWN_SECONDS => ~dispatched'
                /\ (/\ now' >= t0 + COOLDOWN_SECONDS
                    /\ observed' # None
                    /\ stable_counter' >= STABLE_FRAMES) => dispatched']_vars

\* Two dispatches that acted exactly COOLDOWN_SECONDS apart.
C3_Witness ==
    /\ Len(acted_at) = 2
    /\ acted_at[2] - acted_at[1] = COOLDOWN_SECONDS
    /\ dispatched /\ acted = PyTrue

\* C4: as long as no dispatch has acted, every tick that observes a stable
\* count calls the dispatcher, whatever the clock reads.
C4_GateOpenBeforeFirstTrigger ==
    (/\ acted_at = <<>>
     /\ observed # None
     /\ stable_counter >= STABLE_FRAMES) => dispatched

\* C5: a tick changes last_trigger_time only if its dispatch returned True,
\* and then to the tick's clock reading; a tick whose dispatch did not
\* return True leaves last_trigger_time alone and leaves last_count and the
\* counter as the stability update of this tick set them.
C5_TriggerTimeFrame ==
    [][pc' # "done" =>
          /\ last_trigger_time' # last_trigger_time =>
                (dispatched' /\ acted' = PyTrue)
          /\ (dispatched' /\ acted' = PyTrue) => last_trigger_time' = now'
          /\ (dispatched' /\ acted' # PyTrue) =>
                /\ last_trigger_time' = last_trigger_time
                /\ last_count' = observed'
                /\ stable_counter' = IF observed' = last_count
                                     THEN stable_counter + 1 ELSE 1]_vars

\* A dispatch that returned False after an earlier one had acted: the
\* earlier trigger time stands and the counter keeps counting.
C5_Witness ==
    /\ dispatched /\ acted = PyFalse
    /\ acted_at # <<>>
    /\ last_trigger_time = acted_at[Len(acted_at)]
    /\ last_trigger_time < now
    /\ stable_counter > STABLE_FRAMES

\* C6: a say_text action dispatched without the speech capability returns
\* False, and the tick does not record the trigger time.
C6_SayTextWithoutVoice ==
    (/\ dispatched
     /\ ObservedAction = "say_text"
     /\ ~VOICE_AVAILABLE) => (acted = PyFalse /\ last_trigger_time # now)

\* C7: no fault of a capability call leaves perform_mapped_action, and a
\* dispatch all of whose launch calls raised returns exactly False and
\* does not record the trigger time.
C7_FaultsDoNotEscape ==
    /\ pc # "crashed"
    /\ (/\ dispatched
        /\ LaunchCalls # <<>>
        /\ \A i \in DOMAIN LaunchCalls : LaunchCalls[i].raised) =>
          (acted = PyFalse /\ last_trigger_time # now)

\* C8: an open_program dispatch returns True only if it launched a resolved
\* executable without a fault, and returns False when it launched nothing
\* (no parameter, nothing resolved) and when every launch call it made
\* raised.
C8_OpenProgramResult ==
    (dispatched /\ ObservedAction = "open_program") =>
        /\ acted = PyTrue =>
              \E i \in DOMAIN calls :
                  /\ calls[i].fn = "Popen"
                  /\ calls[i].via \in {"abs", "which"}
                  /\ ~calls[i].raised
        /\ LaunchCalls = <<>> => acted = PyFalse
        /\ (\A i \in DOMAIN LaunchCalls : LaunchCalls[i].raised) =>
              acted = PyFalse

\* C9: when the latest dispatch returned False, the next tick that observes
\* a stable count calls the dispatcher again at once: the very next tick if
\* it observes the same count, and the first stable tick of any later count.
C9_RetryAfterFailedDispatch ==
    (/\ prev_ret = PyFalse
     /\ observed # None
     /\ stable_counter >= STABLE_FRAMES) => dispatched

\* C10: as long as every dispatched count is mapped to noop or has no entry
\* in the mapping, every dispatch returns False and last_trigger_time keeps
\* its initial value.
C10_NoopNeverAdvances ==
    noop_only =>
        /\ last_trigger_time = InitialTriggerTime
        /\ acted_at = <<>>
        /\ dispatched => acted = PyFalse

\* A count without an entry dispatched again after a dispatch that
\* returned False.
C10_Witness ==
    /\ noop_only
    /\ dispatched /\ prev_ret = PyFalse
    /\ observed # None /\ observed[1] \notin DOMAIN app_mapping
    /\ stable_counter > STABLE_FRAMES

\* C11: after the inputs None, 1, 1, 1, 1, 1, 1 from the start, the tick of
\* the sixth 1 calls the dispatcher, and when its action acts this is the
\* only dispatch that has acted.
C11_FirstTriggerOnSixthTick ==
    hist = <<None, Some(1), Some(1), Some(1), Some(1), Some(1), Some(1)>> =>
        /\ dispatched
        /\ acted = PyTrue => acted_at = <<now>>

\* C12: while a stable count is held, each further tick with the same count
\* adds one to the counter whether or not a dispatch has acted, and once a
\* dispatch has acted at t0 such a tick dispatches exactly when its clock
\* reading is at least t0 + COOLDOWN_SECONDS.
C12_HeldGestureRepeats ==
    [][(/\ pc' # "done"
        /\ observed # None
        /\ observed' = observed
        /\ stable_counter >= STABLE_FRAMES) =>
          /\ stable_counter' = stable_counter + 1
          /\ acted_at # <<>> =>
                (dispatched' <=>
                    now' >= acted_at[Len(acted_at)] + COOLDOWN_SECONDS)]_vars

\* One count on every tick from the start: the dispatch of the sixth tick
\* acted and so did the dispatch of the seventh, COOLDOWN_SECONDS later.
C12_Witness ==
    /\ hist = <<Some(1), Some(1), Some(1), Some(1), Some(1), Some(1), Some(1)>>
    /\ Len(acted_at) = 2
    /\ acted_at[2] = acted_at[1] + COOLDOWN_SECONDS
    /\ stable_counter = STABLE_FRAMES + 1
    /\ dispatched /\ acted = PyTrue

\* The inputs of the last n ticks.
LastInputs(n) == {hist[i] : i \in (Len(hist) - n + 1)..Len(hist)}

\* C17: whenever a tick calls the dispatcher, the tuple passed is the one
\* the mapping gives the count observed on that tick (noop when it gives
\* none), and the last STABLE_FRAMES ticks, this one included, all observed
\* a hand with that same count.
C17_DispatchesObservedStableCount ==
    dispatched =>
        /\ observed # None
        /\ passed = Some(IF observed[1] \in DOMAIN app_mapping
                         THEN app_mapping[observed[1]]
                         ELSE <<"noop", None>>)
        /\ Len(hist) >= STABLE_FRAMES
        /\ LastInputs(STABLE_FRAMES) = {observed}

\* A dispatch of a count the mapping has no entry for, on the sixth tick of
\* a run that followed a frame with another count.
C17_Witness ==
    /\ dispatched
    /\ hist = <<Some(1), Some(0), Some(0), Some(0), Some(0), Some(0), Some(0)>>
    /\ 0 \notin DOMAIN app_mapping
    /\ passed = Some(<<"noop", None>>)

\* C18: a tick without a hand calls no dispatch and leaves last_trigger_time
\* as it was, and after a dispatch acted and the hand was lost, a tick
\* dispatches only COOLDOWN_SECONDS or more after that dispatch.
C18_HandLossKeepsCooldown ==
    [][/\ (pc' # "done" /\ observed' = None) =>
              /\ ~dispatched'
              /\ last_trigger_time' = last_trigger_time
       /\ (lost_since /\ acted_at # <<>> /\ pc' # "done" /\ dispatched') =>
              now' >= acted_at[Len(acted_at)] + COOLDOWN_SECONDS]_vars

\* A dispatch acted, the hand was lost and came back, its count is stable
\* again, and the tick does not dispatch because the cooldown is running.
C18_Witness ==
    /\ lost_since
    /\ acted_at # <<>>
    /\ observed # None
    /\ stable_counter >= STABLE_FRAMES
    /\ now < acted_at[Len(acted_at)] + COOLDOWN_SECONDS
    /\ ~dispatched

\* C19: on a tick that dispatches a say_text action which acts, with the
\* speech engine available, the engine is asked to say the configured text
\* exactly once.
C19_SayTextSpokenOnce ==
    (/\ dispatched
     /\ passed # None
     /\ passed[1][1] = "say_text"
     /\ VOICE_AVAILABLE
     /\ acted = PyTrue) =>
        Len(SelectSeq(calls, LAMBDA c : /\ c.fn = "say"
                                        /\ c.argv = <<passed[1][2][1]>>)) = 1

\* C20: after every tick the counter is 0 exactly when last_count is None,
\* a counter of 1 or more goes with last_count being the count the tick
\* observed, and the counter is never negative.
C20_CounterAndLastCount ==
    /\ stable_counter = 0 <=> last_count = None
    /\ stable_counter >= 1 => last_count = observed
    /\ stable_counter >= 0

\* The first frame of a hand that came back after a dispatch acted and the
\* hand was lost.
C20_Witness ==
    /\ lost_since
    /\ acted_at # <<>>
    /\ stable_counter = 1
    /\ last_count = observed
    /\ observed # None

\* Whether a name or path resolves in the world of the applied call: as an
\* existing absolute path, or by the PATH search.
Resolves(c) ==
    \/ IsAbs(c, platform) /\ c \in call_in.env.world.files
    \/ c \in call_in.env.world.exec

\* Whether position i of a candidate list holds the first candidate of the
\* list that resolves.
FirstAt(cands, i) ==
    /\ i \in DOMAIN cands
    /\ Resolves(cands[i])
    /\ \A j \in 1..(i - 1) : ~Resolves(cands[j])

\* The candidates of the PROGRAM_LOOKUP groups of a key whose platform key
\* the running platform starts with, and those of all its groups.
MatchingCandidates(key) ==
    Flatten(SelectSeq(LookupGet(key),
                      LAMBDA g : StartsWith(platform, g.plat_key)))

AllCandidates(key) == Flatten(LookupGet(key))

\* Whether `c` is the candidate step (c) of the resolution must choose: the
\* first that resolves in the platform's own groups, or when none of those
\* resolves the first that resolves in all groups.
LookupChoice(key, c) ==
    \/ \E i \in DOMAIN MatchingCandidates(key) :
          MatchingCandidates(key)[i] = c /\ FirstAt(MatchingCandidates(key), i)
    \/ /\ \A i \in DOMAIN MatchingCandidates(key) :
              ~Resolves(MatchingCandidates(key)[i])
       /\ \E i \in DOMAIN AllCandidates(key) :
              AllCandidates(key)[i] = c /\ FirstAt(AllCandidates(key), i)

\* Whether a call launches the name or path `c`, found the way it must be.
Launches(call, c) ==
    /\ call.fn = "Popen"
    /\ call.argv = <<c>>
    /\ call.via = IF IsAbs(c, platform) /\ c \in call_in.env.world.files
                  THEN "abs" ELSE "which"

\* The call perform_mapped_action made after its first `n` calls, if any.
LookupLaunch(out, n) == IF Len(out.calls) > n THEN Some(out.calls[n + 1])
                                               ELSE None

\* C13: open_program with a parameter launches (a) the parameter itself when
\* it is an existing absolute path, and nothing else; else (b) what the PATH
\* search finds for the parameter, and nothing else when that launch
\* starts; else (c) the first resolving candidate of the platform's own
\* PROGRAM_LOOKUP group, or when that group has none the first resolving
\* candidate of all groups, and nothing when no candidate resolves.
C13_ResolutionOrder ==
    (/\ call_out # None
     /\ call_in.mapping_tuple[1] = "open_program"
     /\ call_in.mapping_tuple[2] # None) =>
        LET param == call_in.mapping_tuple[2][1]
            out == call_out[1]
            is_path == IsAbs(param, platform)
                           /\ param \in call_in.env.world.files
            on_path == ~is_path /\ param \in call_in.env.world.exec
            after == IF on_path THEN 1 ELSE 0
            by_key == LookupLaunch(out, after)
        IN  /\ is_path => /\ Len(out.calls) = 1
                          /\ Launches(out.calls[1], param)
                          /\ out.calls[1].via = "abs"
            /\ on_path => /\ Len(out.calls) >= 1
                          /\ Launches(out.calls[1], param)
                          /\ ~out.calls[1].raised => Len(out.calls) = 1
            /\ ~is_path =>
                  IF \E i \in DOMAIN AllCandidates(param) :
                          Resolves(AllCandidates(param)[i])
                  THEN (on_path /\ ~out.calls[1].raised)
                       \/ /\ by_key # None
                          /\ \E c \in Range(AllCandidates(param)) :
                                /\ LookupChoice(param, c)
                                /\ Launches(by_key[1], c)
                  ELSE by_key = None

\* On linux the key "chrome" with the macOS Chrome path present and
\* google-chrome on PATH: the linux group's google-chrome is launched, not
\* the darwin candidate that comes earlier in PROGRAM_LOOKUP.
C13_Witness ==
    /\ call_out # None
    /\ platform = "linux"
    /\ call_in.mapping_tuple = <<"open_program", Some("chrome")>>
    /\ call_in.env.world = [files |-> {MacChrome}, exec |-> {"google-chrome"}]
    /\ call_out[1].calls[1].argv = <<"google-chrome">>

\* Whether the point at Python index k of the counted list is missing or
\* malformed on the axis asked for: past the end of the list, without
\* attributes, or with a coordinate that is not a number.
Defect(k, axis) ==
    \/ k >= Len(call_in.landmark)
    \/ ~call_in.landmark[k + 1].attrs
    \/ (IF axis = "x" THEN call_in.landmark[k + 1].x
                      ELSE call_in.landmark[k + 1].y) = None

\* Whether finger i (1 the thumb) has a missing or malformed tip or joint.
FingerDefect(i) ==
    IF i = 1 THEN Defect(FINGER_TIPS[1], "x") \/ Defect(FINGER_TIPS[1] - 1, "x")
             ELSE Defect(FINGER_TIPS[i], "y") \/ Defect(FINGER_TIPS[i] - 2, "y")

\* C14: count_fingers_from_landmarks never raises, whatever the landmark
\* list: it gives five values in {0,1}, 0 for each finger whose tip or joint
\* is missing or malformed, and a count that is their sum.
C14_CountFingersTotal ==
    call_out # None =>
        /\ call_out[1].ret # PyRaise
        /\ Len(call_out[1].fingers) = 5
        /\ \A i \in 1..5 : /\ call_out[1].fingers[i] \in {0, 1}
                           /\ FingerDefect(i) => call_out[1].fingers[i] = 0
        /\ call_out[1].count = SumSeq(call_out[1].fingers)
        /\ call_out[1].count \in 0..5

\* Whether the call counted a hand whose thumb tip and joint are both there
\* with numeric x.
ThumbCounted ==
    /\ call_out # None
    /\ call_out[1].ret = "ok"
    /\ ~FingerDefect(1)

ThumbTipX == call_in.landmark[FINGER_TIPS[1] + 1].x[1]

ThumbJointX == call_in.landmark[FINGER_TIPS[1]].x[1]

\* C15: the thumb bit is 1 exactly when tip_x > joint_x for the label
\* "Left", and exactly when tip_x < joint_x for "Right" and for every other
\* label, absent or not.
C15_ThumbRightRuleUnlessLeft ==
    ThumbCounted =>
        (call_out[1].fingers[1] = 1 <=>
            IF call_in.hand_label = Some("Left") THEN ThumbTipX > ThumbJointX
                                                 ELSE ThumbTipX < ThumbJointX)

\* C15, amended: the thumb bit is 1 exactly when tip_x < joint_x for the
\* label "Right" and for an absent label, and exactly when tip_x > joint_x
\* for every other label, "Left" or not.
C15_ThumbLeftRuleUnlessRightOrAbsent ==
    ThumbCounted =>
        (call_out[1].fingers[1] = 1 <=>
            IF call_in.hand_label \in {None, Some("Right")}
            THEN ThumbTipX < ThumbJointX
            ELSE ThumbTipX > ThumbJointX)

\* A label that is neither "Left" nor "Right", the thumb tip right of its
\* joint: the thumb counts as extended, as for a left hand.
C15_Witness ==
    /\ ThumbCounted
    /\ call_in.hand_label = Some("Unknown")
    /\ ThumbTipX > ThumbJointX
    /\ call_out[1].fingers[1] = 1

\* C16: for a hand labelled "Left" or "Right", the mirror image (x -> 1 - x
\* on every point) with the label of the other hand gives what the original
\* gave: the same thumb bit, the same finger vector, the same count.
C16_HandednessSymmetry ==
    (/\ call_out # None
     /\ call_in.twin # None
     /\ call_in.hand_label \in {Some("Left"), Some("Right")}) =>
        call_out[1] = call_in.twin[1]

\* All five fingers up on a right hand, counted again as the mirrored left
\* hand.
C16_Witness ==
    /\ call_out # None
    /\ call_in.twin # None
    /\ call_in.hand_label = Some("Left")
    /\ ThumbCounted
    /\ ThumbTipX > ThumbJointX
    /\ call_in.twin[1].fingers = <<1, 1, 1, 1, 1>>
    /\ call_out[1].count = 5

=============================================================================
